---- MODULE Spec2Model ----
(***************************************************************************)
(* Model of lib/ansible/modules/network/f5/bigip_irule.py: one invocation  *)
(* of the bigip_irule module against one BIG-IP device.                    *)
(*                                                                         *)
(* Texts are sequences of characters so that str.strip() is computed.      *)
(* An optional value (Python None or a value) is a set with at most one    *)
(* element: None is {} and a value v is {v}.                               *)
(*                                                                         *)
(* The model covers hosts on which the f5-sdk import succeeded             *)
(* (HAS_F5SDK) and parameters that passed the type/choices validation of   *)
(* the argument spec (name given, module in ltm/gtm, state in              *)
(* present/absent).                                                        *)
(***************************************************************************)
EXTENDS Integers, Sequences, FiniteSets, TLC

\* ---------------------------------------------------------------- bounds
MaxLen == 2

\* ------------------------------------------------------------- vocabulary
Chars == {" ", "a"}
Whitespace == {" "}
Texts == UNION {[1..n -> Chars] : n \in 0..MaxLen}

None == {}
Some(v) == {v}
TheVal(o) == CHOOSE v \in o : TRUE
OptTexts == {None} \cup {Some(t) : t \in Texts}

Names == {"MyiRule"}
Partitions == {"Common", "Tenant"}
Modules == {"ltm", "gtm"}
States == {"present", "absent"}
Paths == {"irule.tcl"}
\* texts an iControlUnexpectedHTTPError can carry
ErrTexts == {"400 Bad Request", "503 Service Unavailable"}

HAS_F5SDK == TRUE

\* messages of the F5ModuleErrors the module raises
MsgSrcNotFound == "The specified 'src' was not found."
MsgEither == "Either 'content' or 'src' must be provided"
MsgCreateFailed == "Failed to create the iRule"
MsgDeleteFailed == "Failed to delete the iRule"
MsgMutuallyExclusive == "parameters are mutually exclusive: content, src"

\* mutant: the pair of content and src is not declared
mutually_exclusive_Empty == {}

\* ArgumentSpec.mutually_exclusive
mutually_exclusive == {{"content", "src"}}

\* ------------------------------------------------------------ str.strip()
RECURSIVE lstrip(_)
lstrip(s) ==
  IF s = <<>> THEN s
  ELSE IF Head(s) \in Whitespace THEN lstrip(Tail(s)) ELSE s

RECURSIVE rstrip(_)
rstrip(s) ==
  IF s = <<>> THEN s
  ELSE IF s[Len(s)] \in Whitespace THEN rstrip(SubSeq(s, 1, Len(s) - 1)) ELSE s

\* mutant: only the leading whitespace is removed
strip_LeftOnly(s) == lstrip(s)

strip(s) == rstrip(lstrip(s))

\* -------------------------------------------------------------- the state
VARIABLES
  params,      \* client.module.params: state, content, src, module, name, partition
  check_mode,  \* client.check_mode
  fs,          \* the local file named by src: None (no such file) or its text
  remote,      \* the device's object for (module, partition, name): None or its attrs
  remote0,     \* the device's object when the invocation started
  pc,          \* position of the invocation
  changes,     \* BaseManager.changes._values
  changed,     \* the value present()/absent() returned
  exc,         \* the F5ModuleError travelling to main's except clause, or None
  calls,       \* the remote calls issued to the iRule endpoints, in order
  httpError,   \* the text of the iControlUnexpectedHTTPError raised, or None
  unapplied,   \* TRUE once the device accepted a mutating call without applying it
  cleaned,     \* number of cleanup_tokens calls
  outcome,     \* "running", "exit_json", "fail_json" or "traceback"
  msg,         \* fail_json's msg
  result,      \* exit_json's keyword arguments
  prior        \* None in a first run; in a second run, how the first one went

vars == <<params, check_mode, fs, remote, remote0, pc, changes, changed, exc,
          calls, httpError, unapplied, cleaned, outcome, msg, result, prior>>

\* values of a Parameters object built from nothing
NoValues == [content |-> None, src |-> None, module |-> None]

\* the device's attrs of an iRule: apiAnonymous may be missing
Attrs == [apiAnonymous : OptTexts]
Remotes == {None} \cup {Some(a) : a \in Attrs}

\* results of evaluating a property: a value or a raised exception
Return(v) == [exc |-> "", msg |-> "", val |-> v]
Raise(e, m) == [exc |-> e, msg |-> m, val |-> <<>>]

\* ------------------------------------------------------ class Parameters
\* mutant: a missing file reads as an empty text instead of raising
src_content_NoCheck(values) ==
  IF values.src = None THEN Raise("TypeError", "")
  ELSE IF fs = None THEN Return(<<>>)
  ELSE Return(TheVal(fs))

\* Parameters.src_content: the text of the file named by src
src_content(values) ==
  IF values.src = None THEN Raise("TypeError", "")   \* os.path.exists(None)
  ELSE IF fs = None THEN Raise("F5ModuleError", MsgSrcNotFound)
  ELSE Return(TheVal(fs))

\* mutant: the text is returned as given, without strip()
content_Unstripped(values) ==
  IF values.content = None
  THEN src_content(values)
  ELSE Return(TheVal(values.content))

\* Parameters.content: the literal content, else the file's, stripped
content(values) ==
  IF values.content = None
  THEN LET r == src_content(values)
       IN IF r.exc # "" THEN r ELSE Return(strip(r.val))
  ELSE Return(strip(TheVal(values.content)))

\* Parameters.src
src(values) == values.src

\* AnsibleF5Parameters._filter_params: drop the keys whose value is None
filter_params(full) ==
  [k \in {k \in DOMAIN full : full[k] # None} |-> TheVal(full[k])]

\* Parameters.to_return: the returnables, or {} when reading one raises
to_return(values) ==
  LET c == content(values)
  IN IF c.exc # "" THEN <<>>
     ELSE filter_params([content |-> Some(c.val),
                         src |-> src(values),
                         module |-> values.module])

\* Parameters.api_params: {'apiAnonymous': content} through _filter_params;
\* an exception of reading content leaves api_params
api_params(values) ==
  LET c == content(values)
  IN IF c.exc # "" THEN c
     ELSE Return(filter_params([apiAnonymous |-> Some(c.val)]))

\* mutant: apiAnonymous is not mapped to content
ParametersFromAttrs_NoMap(attrs) ==
  [content |-> None, src |-> None, module |-> None]

\* Parameters(resource.attrs): api_map stores apiAnonymous under content
ParametersFromAttrs(attrs) ==
  [content |-> attrs.apiAnonymous, src |-> None, module |-> None]

\* BaseManager.want = Parameters(client.module.params)
want == [content |-> params.content, src |-> params.src,
         module |-> Some(params.module)]

\* ----------------------------------------------------- class BaseManager
\* BaseManager._set_changed_options: the new value of self.changes; an
\* exception of reading want.content leaves the method, self.changes as it was
set_changed_options(w) ==
  LET c == content(w)
  IN IF c.exc # "" THEN c
     ELSE Return([content |-> Some(c.val), src |-> src(w), module |-> w.module])

\* mutant: the comparison of want and have is inverted
update_changed_options_Inverted(w, have) ==
  LET attr1 == content(w)
      attr2 == content(have)
  IN IF attr1.exc # ""
     THEN [exc |-> attr1.exc, msg |-> attr1.msg, update |-> FALSE, changes |-> NoValues]
     ELSE IF attr2.exc # ""
     THEN [exc |-> attr2.exc, msg |-> attr2.msg, update |-> FALSE, changes |-> NoValues]
     ELSE IF attr1.val = attr2.val
          THEN [exc |-> "", msg |-> "", update |-> TRUE,
                changes |-> [content |-> Some(attr1.val), src |-> None, module |-> None]]
          ELSE [exc |-> "", msg |-> "", update |-> FALSE, changes |-> NoValues]

\* BaseManager._update_changed_options / should_update
update_changed_options(w, have) ==
  LET attr1 == content(w)
      attr2 == content(have)
  IN IF attr1.exc # ""
     THEN [exc |-> attr1.exc, msg |-> attr1.msg, update |-> FALSE, changes |-> NoValues]
     ELSE IF attr2.exc # ""
     THEN [exc |-> attr2.exc, msg |-> attr2.msg, update |-> FALSE, changes |-> NoValues]
     ELSE IF attr1.val # attr2.val
          THEN [exc |-> "", msg |-> "", update |-> TRUE,
                changes |-> [content |-> Some(attr1.val), src |-> None, module |-> None]]
          ELSE [exc |-> "", msg |-> "", update |-> FALSE, changes |-> NoValues]

\* AnsibleModule's check of mutually_exclusive, run by AnsibleF5Client()
check_mutually_exclusive(groups, p) ==
  \E g \in groups : Cardinality({k \in g : p[k] # None}) > 1

\* mutant: every module type is given the LTM manager
get_manager_AlwaysLtm(type) == "LtmManager"

\* ModuleManager.get_manager: the sub-manager of a module type
get_manager(type) ==
  IF type = "ltm" THEN "LtmManager" ELSE "GtmManager"

\* the namespace a manager addresses: client.api.tm.ltm or client.api.tm.gtm
namespace(manager) ==
  IF manager = "LtmManager" THEN "ltm" ELSE "gtm"

\* mutant: the GTM create call is made without partition
create_kwargs_GtmNoPartition(manager) ==
  IF manager = "LtmManager" THEN {"name", "partition", "apiAnonymous"}
  ELSE {"name", "apiAnonymous"}

\* the keyword arguments of resource.create(...) in create_on_device, which
\* both managers write as name, partition, **params
create_kwargs(manager) == {"name", "partition", "apiAnonymous"}

\* the keyword arguments of a call of a kind
call_kwargs(manager, kind) ==
  CASE kind \in {"exists", "load"} -> {"name", "partition"}
    [] kind = "create" -> create_kwargs(manager)
    [] kind = "update" -> {"apiAnonymous"}
    [] kind = "delete" -> {}

\* a call to an iRule endpoint: tm.<module>.rules.rule.<kind>(...), on the
\* object (name, partition), with its keyword arguments and content
Call(kind, c) ==
  LET manager == get_manager(params.module)
  IN [kind |-> kind, module |-> namespace(manager), name |-> params.name,
      partition |-> params.partition, content |-> c,
      kwargs |-> call_kwargs(manager, kind)]

Mutating == {"create", "update", "delete"}

\* ------------------------------------------------------ control transfers
\* an uncaught exception other than F5ModuleError: the process dies in main
Crash ==
  /\ pc' = "done"
  /\ outcome' = "traceback"
  /\ UNCHANGED <<changes, changed, exc, result, msg>>

\* raise F5ModuleError(m): control goes to main's except clause
Fail(m) ==
  /\ pc' = "cleanup"
  /\ exc' = Some(m)
  /\ UNCHANGED <<changes, changed, result, outcome, msg>>

\* an exception r left present()/absent(): an F5ModuleError goes to main's
\* except clause, anything else is not caught
Propagate(r) ==
  IF r.exc = "F5ModuleError" THEN Fail(r.msg) ELSE Crash

\* present()/absent() returned ch with self.changes = chg: the tail of
\* BaseManager.exec_module builds the result
Finish(ch, chg) ==
  /\ changes' = chg
  /\ changed' = ch
  /\ result' = to_return(chg) @@ ("changed" :> ch)
  /\ pc' = "cleanup"
  /\ UNCHANGED <<exc, outcome, msg>>

\* mutant: the error is re-raised without its text
HttpFail_Generic(e) ==
  /\ httpError' = Some(e)
  /\ Fail("An unexpected HTTP error occurred")

\* a remote call raised iControlUnexpectedHTTPError(e): exec_module
\* re-raises it as F5ModuleError(str(e))
HttpFail(e) ==
  /\ httpError' = Some(e)
  /\ Fail(e)

\* ------------------------------------------------------------------- Init
Init ==
  /\ params \in [state : States, content : OptTexts,
                 src : {None} \cup {Some(p) : p \in Paths},
                 module : Modules, name : Names, partition : Partitions]
  /\ check_mode \in BOOLEAN
  /\ fs \in OptTexts
  /\ params.src = None => fs = None
  /\ remote \in Remotes
  /\ remote0 = remote
  /\ pc = "main"
  /\ changes = NoValues
  /\ changed = FALSE
  /\ exc = None
  /\ calls = <<>>
  /\ httpError = None
  /\ unapplied = FALSE
  /\ cleaned = 0
  /\ outcome = "running"
  /\ msg = ""
  /\ result = <<>>
  /\ prior = None

\* ---------------------------------------------------------------- actions
\* main: AnsibleF5Client(...) validates the arguments
Client ==
  /\ pc = "main"
  /\ IF check_mutually_exclusive(mutually_exclusive, params)
     THEN /\ pc' = "done"
          /\ outcome' = "fail_json"
          /\ msg' = MsgMutuallyExclusive
     ELSE /\ pc' = "exec_module"
          /\ UNCHANGED <<outcome, msg>>
  /\ UNCHANGED <<prior, params, check_mode, fs, remote, remote0, changes, changed,
                 exc, calls, httpError, unapplied, cleaned, result>>

\* main -> ModuleManager.exec_module -> BaseManager.exec_module, up to the
\* first remote call: present()'s check of content and src
ExecModule ==
  /\ pc = "exec_module"
  /\ HAS_F5SDK
  /\ IF params.state = "present"
     THEN LET c == content(want)
          IN IF c.exc = "TypeError" THEN Crash
             ELSE IF c.exc = "F5ModuleError" THEN Fail(c.msg)
             ELSE IF c.val = <<>> /\ src(want) = None THEN Fail(MsgEither)
             ELSE /\ pc' = "exists"
                  /\ UNCHANGED <<changes, changed, exc, result, outcome, msg>>
     ELSE /\ pc' = "exists"
          /\ UNCHANGED <<changes, changed, exc, result, outcome, msg>>
  /\ UNCHANGED <<prior, params, check_mode, fs, remote, remote0, calls, httpError,
                 unapplied, cleaned>>

\* mutant: in check mode create() reports no change
create_DryFalse ==
  LET c == set_changed_options(want)
  IN IF c.exc # "" THEN Propagate(c)
     ELSE IF check_mode THEN Finish(FALSE, c.val)
     ELSE /\ changes' = c.val
          /\ pc' = "create_on_device"
          /\ UNCHANGED <<changed, exc, result, outcome, msg>>

\* create(), before create_on_device: _set_changed_options, check mode
create ==
  LET c == set_changed_options(want)
  IN IF c.exc # "" THEN Propagate(c)
     ELSE IF check_mode THEN Finish(TRUE, c.val)
     ELSE /\ changes' = c.val
          /\ pc' = "create_on_device"
          /\ UNCHANGED <<changed, exc, result, outcome, msg>>

\* update(), after read_current_from_device returned have: should_update,
\* check mode
update(have) ==
  LET u == update_changed_options(want, have)
  IN IF u.exc # "" THEN Propagate(u)
     ELSE IF ~u.update THEN Finish(FALSE, changes)
     ELSE IF check_mode THEN Finish(TRUE, u.changes)
     ELSE /\ changes' = u.changes
          /\ pc' = "update_load"
          /\ UNCHANGED <<changed, exc, result, outcome, msg>>

\* mutant: remove() does not look at check mode
remove_NoCheckMode ==
  /\ pc' = "remove_load"
  /\ UNCHANGED <<changes, changed, exc, result, outcome, msg>>

\* remove(), before remove_from_device: check mode
remove ==
  IF check_mode
  THEN Finish(TRUE, changes)
  ELSE /\ pc' = "remove_load"
       /\ UNCHANGED <<changes, changed, exc, result, outcome, msg>>

\* mutant: present() leaves an existing object alone
present_NoUpdate(ex) ==
  IF ex THEN Finish(FALSE, changes) ELSE create

\* present(), once self.exists() answered ex
present(ex) ==
  IF ex
  THEN /\ pc' = "read_current"
       /\ UNCHANGED <<changes, changed, exc, result, outcome, msg>>
  ELSE create

\* mutant: absent() removes when the object is not there
absent_Inverted(ex) ==
  IF ex THEN Finish(FALSE, changes) ELSE remove

\* absent(), once self.exists() answered ex
absent(ex) ==
  IF ex THEN remove ELSE Finish(FALSE, changes)

\* present()/absent(): self.exists(), then the branch up to the next call
Exists ==
  /\ pc = "exists"
  /\ calls' = Append(calls, Call("exists", None))
  /\ \/ \E e \in ErrTexts : HttpFail(e)
     \/ /\ UNCHANGED httpError
        /\ IF params.state = "present"
           THEN present(remote # None)
           ELSE absent(remote # None)
  /\ UNCHANGED <<prior, params, check_mode, fs, remote, remote0, unapplied, cleaned>>

\* update(): read_current_from_device, then the rest of update()
ReadCurrent ==
  /\ pc = "read_current"
  /\ calls' = Append(calls, Call("load", None))
  /\ \/ \E e \in ErrTexts : HttpFail(e)
     \/ /\ UNCHANGED httpError
        /\ update(ParametersFromAttrs(TheVal(remote)))
  /\ UNCHANGED <<prior, params, check_mode, fs, remote, remote0, unapplied, cleaned>>

\* update_on_device: params = self.changes.api_params(); rule.load(...)
UpdateLoad ==
  /\ pc = "update_load"
  /\ LET p == api_params(changes)
     IN IF p.exc # ""
        THEN /\ Propagate(p)
             /\ UNCHANGED <<calls, httpError>>
        ELSE /\ calls' = Append(calls, Call("load", None))
             /\ \/ \E e \in ErrTexts : HttpFail(e)
                \/ /\ pc' = "update"
                   /\ UNCHANGED <<httpError, changes, changed, exc, result,
                                  outcome, msg>>
  /\ UNCHANGED <<prior, params, check_mode, fs, remote, remote0, unapplied, cleaned>>

\* update_on_device: resource.update(**params); update() returns True
Update ==
  /\ pc = "update"
  /\ LET p == api_params(changes).val
     IN /\ calls' = Append(calls, Call("update", Some(p.apiAnonymous)))
        /\ \/ /\ \E e \in ErrTexts : HttpFail(e)
              /\ UNCHANGED <<remote, unapplied>>
           \/ /\ remote' = Some([apiAnonymous |-> Some(p.apiAnonymous)])
              /\ UNCHANGED <<httpError, unapplied>>
              /\ Finish(TRUE, changes)
           \/ /\ unapplied' = TRUE
              /\ UNCHANGED <<httpError, remote>>
              /\ Finish(TRUE, changes)
  /\ UNCHANGED <<prior, params, check_mode, fs, remote0, cleaned>>

\* create_on_device: rule.create(name, partition, **self.want.api_params())
CreateOnDevice ==
  /\ pc = "create_on_device"
  /\ LET p == api_params(want)
     IN IF p.exc # ""
        THEN /\ Propagate(p)
             /\ UNCHANGED <<calls, httpError, remote, unapplied>>
        ELSE /\ calls' = Append(calls, Call("create", Some(p.val.apiAnonymous)))
             /\ \/ /\ \E e \in ErrTexts : HttpFail(e)
                   /\ UNCHANGED <<remote, unapplied>>
                \/ /\ remote' = Some([apiAnonymous |-> Some(p.val.apiAnonymous)])
                   /\ pc' = "confirm_create"
                   /\ UNCHANGED <<httpError, unapplied, changes, changed, exc,
                                  result, outcome, msg>>
                \/ /\ unapplied' = TRUE
                   /\ pc' = "confirm_create"
                   /\ UNCHANGED <<httpError, remote, changes, changed, exc,
                                  result, outcome, msg>>
  /\ UNCHANGED <<prior, params, check_mode, fs, remote0, cleaned>>

\* mutant: create() issues the create call again when the object is absent
ConfirmCreate_Retry ==
  /\ pc = "confirm_create"
  /\ calls' = Append(calls, Call("exists", None))
  /\ \/ \E e \in ErrTexts : HttpFail(e)
     \/ /\ UNCHANGED httpError
        /\ IF remote = None
           THEN /\ pc' = "create_on_device"
                /\ UNCHANGED <<changes, changed, exc, result, outcome, msg>>
           ELSE Finish(TRUE, changes)
  /\ UNCHANGED <<prior, params, check_mode, fs, remote, remote0, unapplied, cleaned>>

\* create(): if not self.exists(): raise ...; return True
ConfirmCreate ==
  /\ pc = "confirm_create"
  /\ calls' = Append(calls, Call("exists", None))
  /\ \/ \E e \in ErrTexts : HttpFail(e)
     \/ /\ UNCHANGED httpError
        /\ IF remote = None THEN Fail(MsgCreateFailed)
           ELSE Finish(TRUE, changes)
  /\ UNCHANGED <<prior, params, check_mode, fs, remote, remote0, unapplied, cleaned>>

\* remove_from_device: rule.load(...)
RemoveLoad ==
  /\ pc = "remove_load"
  /\ calls' = Append(calls, Call("load", None))
  /\ \/ \E e \in ErrTexts : HttpFail(e)
     \/ /\ pc' = "delete"
        /\ UNCHANGED <<httpError, changes, changed, exc, result, outcome, msg>>
  /\ UNCHANGED <<prior, params, check_mode, fs, remote, remote0, unapplied, cleaned>>

\* remove_from_device: resource.delete()
Delete ==
  /\ pc = "delete"
  /\ calls' = Append(calls, Call("delete", None))
  /\ \/ /\ \E e \in ErrTexts : HttpFail(e)
        /\ UNCHANGED <<remote, unapplied>>
     \/ /\ remote' = None
        /\ pc' = "confirm_delete"
        /\ UNCHANGED <<httpError, unapplied, changes, changed, exc, result,
                       outcome, msg>>
     \/ /\ unapplied' = TRUE
        /\ pc' = "confirm_delete"
        /\ UNCHANGED <<httpError, remote, changes, changed, exc, result,
                       outcome, msg>>
  /\ UNCHANGED <<prior, params, check_mode, fs, remote0, cleaned>>

\* mutant: remove() does not look at the answer of its confirmation check
ConfirmDelete_Unchecked ==
  /\ pc = "confirm_delete"
  /\ calls' = Append(calls, Call("exists", None))
  /\ \/ \E e \in ErrTexts : HttpFail(e)
     \/ /\ UNCHANGED httpError
        /\ Finish(TRUE, changes)
  /\ UNCHANGED <<prior, params, check_mode, fs, remote, remote0, unapplied, cleaned>>

\* remove(): if self.exists(): raise ...; return True
ConfirmDelete ==
  /\ pc = "confirm_delete"
  /\ calls' = Append(calls, Call("exists", None))
  /\ \/ \E e \in ErrTexts : HttpFail(e)
     \/ /\ UNCHANGED httpError
        /\ IF remote # None THEN Fail(MsgDeleteFailed)
           ELSE Finish(TRUE, changes)
  /\ UNCHANGED <<prior, params, check_mode, fs, remote, remote0, unapplied, cleaned>>

\* main: cleanup_tokens(client), on the success path and in the except clause
CleanupTokens ==
  /\ pc = "cleanup"
  /\ cleaned' = cleaned + 1
  /\ pc' = "exit"
  /\ UNCHANGED <<prior, params, check_mode, fs, remote, remote0, changes, changed,
                 exc, calls, httpError, unapplied, outcome, msg, result>>

\* main: client.module.exit_json(**results)
ExitJson ==
  /\ pc = "exit"
  /\ exc = None
  /\ outcome' = "exit_json"
  /\ pc' = "done"
  /\ UNCHANGED <<prior, params, check_mode, fs, remote, remote0, changes, changed,
                 exc, calls, httpError, unapplied, cleaned, msg, result>>

\* main: client.module.fail_json(msg=str(e))
FailJson ==
  /\ pc = "exit"
  /\ exc # None
  /\ outcome' = "fail_json"
  /\ msg' = TheVal(exc)
  /\ pc' = "done"
  /\ UNCHANGED <<prior, params, check_mode, fs, remote, remote0, changes, changed,
                 exc, calls, httpError, unapplied, cleaned, result>>

Next ==
  \/ Client
  \/ ExecModule
  \/ Exists
  \/ ReadCurrent
  \/ UpdateLoad
  \/ Update
  \/ CreateOnDevice
  \/ ConfirmCreate
  \/ RemoveLoad
  \/ Delete
  \/ ConfirmDelete
  \/ CleanupTokens
  \/ ExitJson
  \/ FailJson

Spec == Init /\ [][Next]_vars

\* the same task is run a second time, directly after a run that succeeded:
\* main starts again on the same parameters, against the device as the
\* first run left it
Rerun ==
  /\ pc = "done"
  /\ outcome = "exit_json"
  /\ prior = None
  /\ prior' = Some([faithful |-> (httpError = None /\ ~unapplied),
                    check_mode |-> check_mode,
                    remote0 |-> remote0])
  /\ remote0' = remote
  /\ pc' = "main"
  /\ changes' = NoValues
  /\ changed' = FALSE
  /\ calls' = <<>>
  /\ unapplied' = FALSE
  /\ cleaned' = 0
  /\ outcome' = "running"
  /\ result' = <<>>
  /\ UNCHANGED <<params, check_mode, fs, remote, exc, httpError, msg>>

NextRerun == Next \/ Rerun

SpecRerun == Init /\ [][NextRerun]_vars

\* --------------------------------------------------------------- typing
TypeOK ==
  /\ pc \in {"main", "exec_module", "exists", "read_current", "update_load",
             "update", "create_on_device", "confirm_create", "remove_load",
             "delete", "confirm_delete", "cleanup", "exit", "done"}
  /\ outcome \in {"running", "exit_json", "fail_json", "traceback"}
  /\ (outcome = "running") = (pc # "done")
  /\ remote \in Remotes
  /\ cleaned \in 0..1

\* ------------------------------------------------- vocabulary of the claims
Done == pc = "done"

\* the arguments passed AnsibleF5Client's validation
ArgsAccepted == ~(params.content # None /\ params.src # None)

\* exactly one of content/src is given and it resolves to a text
Resolvable ==
  \/ params.content # None /\ params.src = None
  \/ params.content = None /\ params.src # None /\ fs # None

\* the desired content: the given text, trimmed (meaningful when Resolvable)
DesiredText ==
  strip(IF params.content # None THEN TheVal(params.content) ELSE TheVal(fs))

\* an inline content that trims to the empty text counts as not provided
DesiredAccepted == params.content # None => DesiredText # <<>>

\* every remote call was answered without an HTTP error, and the device
\* applied every mutating call it accepted
AnsweredFaithfully == httpError = None /\ ~unapplied

CallsOf(kinds) == {i \in DOMAIN calls : calls[i].kind \in kinds}

\* the invocation ended in exit_json with changed=b
ReportsChanged(b) ==
  /\ outcome = "exit_json"
  /\ "changed" \in DOMAIN result
  /\ result["changed"] = b

\* the object was on the device at the start, with a content attribute
\* whose trimmed text is t
RemoteHadText(t) ==
  /\ remote0 # None
  /\ TheVal(remote0).apiAnonymous # None
  /\ strip(TheVal(TheVal(remote0).apiAnonymous)) = t

\* one create call, carrying name, partition and the desired text, no
\* update or delete call, and changed=true
CreatedOnce ==
  /\ Cardinality(CallsOf({"create"})) = 1
  /\ \A i \in CallsOf({"create"}) :
       /\ calls[i].name = params.name
       /\ calls[i].partition = params.partition
       /\ calls[i].content = Some(DesiredText)
  /\ CallsOf({"update", "delete"}) = {}
  /\ ReportsChanged(TRUE)

\* ------------------------------------------------------------------ C1
\* C1 as stated: state=present, exactly one of content/src resolving to the
\* text X, not in check mode, no remote object, every remote call answered
\* without error and applied: exactly one create call with name, partition
\* and X, no update or delete call, changed=true.
C1_AsStated ==
  (Done /\ params.state = "present" /\ Resolvable /\ ~check_mode
        /\ remote0 = None /\ AnsweredFaithfully)
  => CreatedOnce

\* C1 amended: the same, for an X that is not empty after trimming when it
\* is given inline through content; the create call carries the trimmed X.
C1_CreateWhenAbsent ==
  (Done /\ params.state = "present" /\ Resolvable /\ DesiredAccepted
        /\ ~check_mode /\ remote0 = None /\ AnsweredFaithfully)
  => CreatedOnce

\* an object was created from a file whose text carries outer whitespace
C1_Witness ==
  /\ Done /\ params.state = "present" /\ params.src # None /\ ~check_mode
  /\ remote0 = None /\ AnsweredFaithfully
  /\ fs # None /\ TheVal(fs) # DesiredText /\ DesiredText # <<>>
  /\ CallsOf({"create"}) # {} /\ ReportsChanged(TRUE)

\* ------------------------------------------------------------------ C2
\* C2 as stated: state=present, the remote object exists and its (trimmed)
\* content equals the desired content, every remote call answered without
\* error: no create, update or delete call, changed=false.
C2_AsStated ==
  (Done /\ params.state = "present" /\ Resolvable
        /\ RemoteHadText(DesiredText) /\ AnsweredFaithfully)
  => (CallsOf(Mutating) = {} /\ ReportsChanged(FALSE))

\* C2 amended: the same, for a desired content that is not empty after
\* trimming when it is given inline through content.
C2_NoOpWhenEqual ==
  (Done /\ params.state = "present" /\ Resolvable /\ DesiredAccepted
        /\ RemoteHadText(DesiredText) /\ AnsweredFaithfully)
  => (CallsOf(Mutating) = {} /\ ReportsChanged(FALSE))

\* a run, not in check mode, that found the remote content equal to the
\* desired one although the raw texts differ
C2_Witness ==
  /\ Done /\ params.state = "present" /\ Resolvable /\ DesiredAccepted
  /\ ~check_mode /\ RemoteHadText(DesiredText) /\ AnsweredFaithfully
  /\ TheVal(remote0).apiAnonymous # Some(DesiredText)
  /\ Len(calls) = 2 /\ ReportsChanged(FALSE)

\* ------------------------------------------------------------------ C3
\* C3 as stated: state=present, not in check mode, a desired content that is
\* not empty after trimming, the remote object exists and its content differs
\* from the desired content (a remote object without a content attribute
\* included), every remote call answered without error and applied: exactly
\* one update call carrying the new content, changed=true.
C3_AsStated ==
  (Done /\ params.state = "present" /\ Resolvable /\ DesiredText # <<>>
        /\ ~check_mode /\ remote0 # None /\ ~RemoteHadText(DesiredText)
        /\ AnsweredFaithfully)
  => /\ Cardinality(CallsOf({"update"})) = 1
     /\ \A i \in CallsOf({"update"}) : calls[i].content = Some(DesiredText)
     /\ ReportsChanged(TRUE)

\* ------------------------------------------------------------------ C4
\* C4: state=absent, not in check mode, arguments accepted, every remote call
\* answered without error and applied: if the remote object exists, exactly
\* one delete call and changed=true; if it does not, no mutating call and
\* changed=false.
C4_Absent ==
  (Done /\ params.state = "absent" /\ ArgsAccepted /\ ~check_mode
        /\ AnsweredFaithfully)
  => IF remote0 # None
     THEN /\ Cardinality(CallsOf({"delete"})) = 1
          /\ CallsOf({"create", "update"}) = {}
          /\ ReportsChanged(TRUE)
     ELSE /\ CallsOf(Mutating) = {}
          /\ ReportsChanged(FALSE)

\* an object was deleted
C4_Witness ==
  /\ Done /\ params.state = "absent" /\ ArgsAccepted /\ ~check_mode
  /\ AnsweredFaithfully /\ remote0 # None /\ remote = None
  /\ CallsOf({"delete"}) # {} /\ ReportsChanged(TRUE)

\* ------------------------------------------------------------------ C5
\* C5: in check mode no create, update or delete call is ever issued, and
\* the remote object stays what it was when the invocation started.
C5_DryRunFrame ==
  check_mode => (CallsOf(Mutating) = {} /\ remote = remote0)

\* a check-mode run that reported a change it did not make
C5_Witness ==
  /\ check_mode /\ Done /\ ReportsChanged(TRUE)
  /\ params.state = "present" /\ remote0 # None /\ remote = remote0

\* ------------------------------------------------------------------ C6
\* C6 as stated: state=present with neither content nor src given fails
\* through fail_json with a message, before any remote call.
C6_AsStated ==
  (Done /\ params.state = "present" /\ params.content = None
        /\ params.src = None)
  => (outcome = "fail_json" /\ msg # "" /\ calls = <<>>)

\* ------------------------------------------------------------------ C7
\* C7 as stated: whenever src is given (and accepted) and the file it names
\* does not exist, no remote call is ever made and the invocation fails with
\* the "not found" error, for state=present and state=absent alike.
C7_AsStated ==
  (ArgsAccepted /\ params.src # None /\ fs = None)
  => /\ calls = <<>>
     /\ Done => (outcome = "fail_json"
                 /\ msg = "The specified 'src' was not found.")

\* C7 amended: with state=present, whenever src is given (and accepted) and
\* the file it names does not exist, no remote call is ever made and the
\* invocation fails with the "not found" error.
C7_SrcNotFound ==
  (params.state = "present" /\ ArgsAccepted /\ params.src # None /\ fs = None)
  => /\ calls = <<>>
     /\ Done => (outcome = "fail_json"
                 /\ msg = "The specified 'src' was not found.")

\* a state=present run that ended on the missing file
C7_Witness ==
  /\ Done /\ params.state = "present" /\ params.content = None
  /\ params.src # None /\ fs = None /\ outcome = "fail_json" /\ cleaned = 1

\* ------------------------------------------------------------------ C8
\* C8: an invocation that gives both content and src never makes a remote
\* call and ends in fail_json with the mutually-exclusive message.
C8_MutuallyExclusive ==
  (params.content # None /\ params.src # None)
  => /\ calls = <<>>
     /\ cleaned = 0
     /\ remote = remote0
     /\ pc \in {"main", "done"}
     /\ Done => (outcome = "fail_json"
                 /\ msg = "parameters are mutually exclusive: content, src")

\* a rejected invocation whose src names an existing file
C8_Witness ==
  /\ Done /\ params.content # None /\ params.src # None /\ fs # None
  /\ outcome = "fail_json" /\ calls = <<>>

\* ------------------------------------------------------------------ C9
\* the confirmation check after a call of kind k was answered, and found the
\* object present (found) or absent (~found)
ConfirmedAfter(k, found) ==
  /\ Done
  /\ httpError = None
  /\ Len(calls) >= 2
  /\ calls[Len(calls)].kind = "exists"
  /\ calls[Len(calls) - 1].kind = k
  /\ (remote # None) = found

\* C9: when the confirmation check after a create call finds the object
\* absent the invocation fails with "Failed to create the iRule"; when the
\* one after a delete call finds it present the invocation fails with
\* "Failed to delete the iRule"; neither reports success.
C9_PostConditions ==
  /\ ConfirmedAfter("create", FALSE)
       => (outcome = "fail_json" /\ msg = "Failed to create the iRule"
           /\ ~ReportsChanged(TRUE))
  /\ ConfirmedAfter("delete", TRUE)
       => (outcome = "fail_json" /\ msg = "Failed to delete the iRule"
           /\ ~ReportsChanged(TRUE))

\* a delete the device accepted and did not apply
C9_Witness ==
  /\ ConfirmedAfter("delete", TRUE) /\ unapplied /\ outcome = "fail_json"

\* ----------------------------------------------------------------- C10
\* C10: once a remote call raised an unexpected HTTP error no further call is
\* issued to the iRule endpoints, and the invocation ends in fail_json with
\* the text of that error as its message.
C10_HttpError ==
  /\ [](httpError # None =>
          /\ pc \in {"cleanup", "exit", "done"}
          /\ Done => (outcome = "fail_json" /\ msg = TheVal(httpError)))
  /\ [][httpError # None => calls' = calls]_vars

\* a run that ended on an HTTP error raised by the confirmation check after a
\* create call the device had applied
C10_Witness ==
  /\ Done /\ httpError # None /\ outcome = "fail_json"
  /\ Len(calls) = 3 /\ calls[2].kind = "create" /\ remote # None

\* ----------------------------------------------------------------- C11
\* C11 as stated: every invocation whose arguments were accepted, so that a
\* session exists, has called cleanup_tokens by the time it terminates.
C11_AsStated ==
  (Done /\ ArgsAccepted) => cleaned >= 1

\* ----------------------------------------------------------------- C12
\* the calls are, in this order: the initial existence check, at most
\* maxLoads loads, at most one mutating call, at most one confirmation
\* existence check (an existence check that follows a mutating call)
LinearSequence(maxLoads) ==
  /\ calls # <<>> => calls[1].kind = "exists"
  /\ Cardinality(CallsOf({"load"})) <= maxLoads
  /\ Cardinality(CallsOf(Mutating)) <= 1
  /\ Cardinality(CallsOf({"exists"}) \ {1}) <= 1
  /\ \A i \in CallsOf({"load"}) : \A j \in CallsOf(Mutating) : i < j
  /\ \A i \in CallsOf({"exists"}) \ {1} :
       /\ i = Len(calls)
       /\ calls[i - 1].kind \in Mutating

\* C12 as stated: the remote calls of an invocation are at most one initial
\* existence check, at most one load, at most one mutating call and at most
\* one confirmation existence check, in that order.
C12_AsStated == LinearSequence(1)

\* C12 amended: the same with at most two loads, the one of
\* read_current_from_device and the one that precedes the update or delete.
C12_LinearSequence == LinearSequence(2)

\* an update: existence check, two loads, the update call
C12_Witness ==
  /\ Done /\ Len(calls) = 4 /\ Cardinality(CallsOf({"load"})) = 2
  /\ calls[4].kind = "update" /\ ReportsChanged(TRUE)

\* ----------------------------------------------------------------- C13
\* C13 as stated: every invocation that succeeds with changed=true returns
\* module and content, and src when src was given, next to changed.
C13_AsStated ==
  (Done /\ ReportsChanged(TRUE))
  => /\ "module" \in DOMAIN result
     /\ "content" \in DOMAIN result
     /\ params.src # None => "src" \in DOMAIN result

\* ----------------------------------------------------------------- C14
\* C14 as stated: a create call for module=gtm carries no partition argument,
\* a create call for module=ltm carries one.
C14_AsStated ==
  \A i \in CallsOf({"create"}) :
    ("partition" \in calls[i].kwargs) = (params.module = "ltm")

\* C14 amended: the create call carries name, partition and the content for
\* module=gtm and module=ltm alike; the two differ in the namespace only.
C14_CreateArguments ==
  \A i \in CallsOf({"create"}) :
    /\ calls[i].kwargs = {"name", "partition", "apiAnonymous"}
    /\ calls[i].partition = params.partition
    /\ calls[i].module = params.module

\* a GTM iRule was created in a partition other than Common
C14_Witness ==
  /\ Done /\ params.module = "gtm" /\ params.partition = "Tenant"
  /\ CallsOf({"create"}) # {} /\ ReportsChanged(TRUE)

\* ----------------------------------------------------------------- C15
\* the decision table of section 4.3 of the specification, with the input
\* validation in front of it, read off the desired parameters other than
\* module, the check-mode flag, the local file and the remote object at the
\* start: the kinds of the calls, how the invocation ends and the changed it
\* reports. The module type is not read.
End(kinds, o, m, ch) == [kinds |-> kinds, outcome |-> o, msg |-> m, changed |-> ch]

Decision ==
  IF ~ArgsAccepted
  THEN End(<<>>, "fail_json", "parameters are mutually exclusive: content, src", FALSE)
  ELSE IF params.state = "absent"
  THEN IF remote0 = None THEN End(<<"exists">>, "exit_json", "", FALSE)
       ELSE IF check_mode THEN End(<<"exists">>, "exit_json", "", TRUE)
       ELSE End(<<"exists", "load", "delete", "exists">>, "exit_json", "", TRUE)
  ELSE IF params.content = None /\ params.src = None
  THEN End(<<>>, "traceback", "", FALSE)
  ELSE IF ~Resolvable
  THEN End(<<>>, "fail_json", "The specified 'src' was not found.", FALSE)
  ELSE IF ~DesiredAccepted
  THEN End(<<>>, "fail_json", "Either 'content' or 'src' must be provided", FALSE)
  ELSE IF remote0 = None
  THEN IF check_mode THEN End(<<"exists">>, "exit_json", "", TRUE)
       ELSE End(<<"exists", "create", "exists">>, "exit_json", "", TRUE)
  ELSE IF TheVal(remote0).apiAnonymous = None
  THEN End(<<"exists", "load">>, "traceback", "", FALSE)
  ELSE IF RemoteHadText(DesiredText)
  THEN End(<<"exists", "load">>, "exit_json", "", FALSE)
  ELSE IF check_mode THEN End(<<"exists", "load">>, "exit_json", "", TRUE)
  ELSE End(<<"exists", "load", "load", "update">>, "exit_json", "", TRUE)

\* C15: in an invocation whose remote calls are answered without error and
\* applied, the sequence of call kinds, the outcome with its message and the
\* reported changed are those of the decision table, which does not read the
\* module type, so the LTM and the GTM reconciler agree on them; name,
\* partition and keyword arguments of every call are those of the table's
\* kind, and the call is addressed to the namespace of the module type.
C15_SameForLtmAndGtm ==
  (Done /\ AnsweredFaithfully)
  => /\ [i \in DOMAIN calls |-> calls[i].kind] = Decision.kinds
     /\ outcome = Decision.outcome
     /\ msg = Decision.msg
     /\ outcome = "exit_json" => ReportsChanged(Decision.changed)
     /\ \A i \in DOMAIN calls :
          /\ calls[i].module = params.module
          /\ calls[i].name = params.name
          /\ calls[i].partition = params.partition
          /\ calls[i].kwargs =
               CASE calls[i].kind \in {"exists", "load"} -> {"name", "partition"}
                 [] calls[i].kind = "create" -> {"name", "partition", "apiAnonymous"}
                 [] calls[i].kind = "update" -> {"apiAnonymous"}
                 [] calls[i].kind = "delete" -> {}

\* the GTM reconciler deleted an object
C15_Witness ==
  /\ Done /\ AnsweredFaithfully /\ params.module = "gtm"
  /\ Len(calls) = 4 /\ calls[3].kind = "delete" /\ calls[3].module = "gtm"
  /\ ReportsChanged(TRUE)

\* ----------------------------------------------------------------- C16
\* a text of blanks only (the empty text included)
Blank(s) == \A i \in DOMAIN s : s[i] = " "

\* t is raw without its leading and trailing blanks
IsTrimOf(t, raw) ==
  /\ t = <<>> \/ (t[1] # " " /\ t[Len(t)] # " ")
  /\ \E a \in 0..Len(raw) :
       /\ a + Len(t) <= Len(raw)
       /\ SubSeq(raw, a + 1, a + Len(t)) = t
       /\ Blank(SubSeq(raw, 1, a))
       /\ Blank(SubSeq(raw, a + Len(t) + 1, Len(raw)))

\* the desired text as given, before any trimming
RawDesired ==
  IF params.content # None THEN TheVal(params.content) ELSE TheVal(fs)

\* the remote object carried a text at the start that is not the desired
\* text as given, and the two differ in leading or trailing blanks only
DifferInOuterBlanksOnly ==
  /\ remote0 # None
  /\ TheVal(remote0).apiAnonymous # None
  /\ TheVal(TheVal(remote0).apiAnonymous) # RawDesired
  /\ \E t \in Texts : /\ IsTrimOf(t, RawDesired)
                      /\ IsTrimOf(t, TheVal(TheVal(remote0).apiAnonymous))

\* every create or update call issued carries the desired text trimmed
CarriesTrimmed ==
  \A i \in CallsOf({"create", "update"}) :
    /\ calls[i].content # None
    /\ IsTrimOf(TheVal(calls[i].content), RawDesired)

\* C16 as stated: when the desired and the remote text differ only in leading
\* or trailing whitespace (remote calls answered without error), no update
\* call is issued and changed=false is reported; the content carried by a
\* create or update call is the desired text, trimmed.
C16_AsStated ==
  /\ (params.state = "present" /\ Resolvable) => CarriesTrimmed
  /\ (Done /\ params.state = "present" /\ Resolvable
           /\ DifferInOuterBlanksOnly /\ AnsweredFaithfully)
     => (CallsOf({"update"}) = {} /\ ReportsChanged(FALSE))

\* C16 amended: the same, the no-update part for a desired text that is not
\* blank when it is given inline through content.
C16_Trimmed ==
  /\ (params.state = "present" /\ Resolvable) => CarriesTrimmed
  /\ (Done /\ params.state = "present" /\ Resolvable
           /\ (params.content # None => ~Blank(RawDesired))
           /\ DifferInOuterBlanksOnly /\ AnsweredFaithfully)
     => (CallsOf({"update"}) = {} /\ ReportsChanged(FALSE))

\* desired "a " against remote " a": compared, nothing sent
C16_Witness ==
  /\ Done /\ params.state = "present" /\ ~check_mode
  /\ params.content = Some(<<"a", " ">>)
  /\ remote0 = Some([apiAnonymous |-> Some(<<" ", "a">>)])
  /\ AnsweredFaithfully /\ Len(calls) = 2 /\ ReportsChanged(FALSE)

\* ----------------------------------------------------------------- C17
\* the real (not check-mode) invocation on these inputs, against a device
\* that answers without error and applies every call, succeeds
RealRunSucceeds ==
  /\ ArgsAccepted
  /\ params.state = "present" =>
       /\ Resolvable
       /\ DesiredAccepted
       /\ remote0 # None => TheVal(remote0).apiAnonymous # None

\* the changed value that real invocation reports
RealRunChanged ==
  IF params.state = "absent" THEN remote0 # None
  ELSE remote0 = None \/ ~RemoteHadText(DesiredText)

\* C17: RealRunSucceeds and RealRunChanged are what the real invocation
\* against a faithful device does, and whenever that real invocation succeeds
\* with changed=c the check-mode invocation on the same inputs and remote
\* object, its calls answered without error, succeeds with changed=c too.
C17_DryRunPredicts ==
  /\ (Done /\ ~check_mode /\ AnsweredFaithfully)
     => /\ (outcome = "exit_json") = RealRunSucceeds
        /\ outcome = "exit_json" => ReportsChanged(RealRunChanged)
  /\ (Done /\ check_mode /\ httpError = None /\ RealRunSucceeds)
     => ReportsChanged(RealRunChanged)

\* a check-mode run that announced the creation of an object
C17_Witness ==
  /\ Done /\ check_mode /\ httpError = None /\ RealRunSucceeds
  /\ params.state = "present" /\ remote0 = None
  /\ Len(calls) = 1 /\ ReportsChanged(TRUE)

\* ----------------------------------------------------------------- C18
\* C18: after a successful invocation, not in check mode, whose remote calls
\* were answered without error and applied: with state=present the remote
\* object exists and its trimmed content is the trimmed desired content,
\* with state=absent the remote object does not exist.
C18_Convergence ==
  (Done /\ ~check_mode /\ outcome = "exit_json" /\ AnsweredFaithfully)
  => IF params.state = "present"
     THEN /\ Resolvable
          /\ remote # None
          /\ TheVal(remote).apiAnonymous # None
          /\ \E t \in Texts : /\ IsTrimOf(t, RawDesired)
                              /\ IsTrimOf(t, TheVal(TheVal(remote).apiAnonymous))
     ELSE remote = None

\* an update brought a differing remote object to the desired content
C18_Witness ==
  /\ Done /\ ~check_mode /\ outcome = "exit_json" /\ AnsweredFaithfully
  /\ params.state = "present" /\ remote0 # None /\ remote # remote0
  /\ CallsOf({"update"}) # {}

\* ----------------------------------------------------------------- C19
\* the run is the second one, not in check mode, after a first run that
\* succeeded with every remote call answered without error and applied
SecondRun ==
  /\ prior # None
  /\ TheVal(prior).faithful
  /\ ~check_mode

\* C19: the second run issues no mutating call and, its remote calls
\* answered without error, reports changed=false, whatever the remote object
\* was before the first run and for state=present and state=absent.
C19_Idempotent ==
  SecondRun
  => /\ CallsOf(Mutating) = {}
     /\ remote = remote0
     /\ (Done /\ httpError = None) => ReportsChanged(FALSE)

\* the second run after a first run that created the object
C19_Witness ==
  /\ SecondRun /\ Done /\ httpError = None
  /\ params.state = "present" /\ TheVal(prior).remote0 = None
  /\ Len(calls) = 2 /\ ReportsChanged(FALSE)

====
